---- MODULE Spec2Model ----
(***************************************************************************)
(* Model of the stablecoin pallet (src/src/lib.rs): the storage items, the *)
(* dispatchable calls init, init_with_shareholders, transfer and           *)
(* bid_for_bond, and the per-block hook on_initialize with the supply      *)
(* adjustment it drives (expand_or_contract_on_price, contract_supply,     *)
(* expand_supply, hand_out_coins_to_shareholders).                         *)
(*                                                                         *)
(* Coins (u64) are modelled as unsigned integers of CoinBits bits, so that *)
(* the checked and the unchecked additions of the code reach their limits  *)
(* within the explored runs.  Perbill keeps its 10^9 accuracy.  A Fixed64  *)
(* value is the pair <<nat, frac>> standing for nat + frac / 10^9 with     *)
(* 0 <= frac < 10^9 (its raw i64 is nat * 10^9 + frac).                    *)
(***************************************************************************)
EXTENDS Integers, Sequences, FiniteSets, TLC

\* ------------------------------------------------------------------------
\* Bounds of the model

\* width of the Coins type in the model (u64 in the code)
CoinBits == 18
\* T::MaximumBids (a runtime configuration value; 10 in the mock runtime)
MaximumBids == 2
\* T::ExpirationPeriod (a runtime configuration value; 100 in the mock runtime)
ExpirationPeriod == 2
\* length of a run of the model: the signed calls (extrinsics) that go through
\* plus the blocks produced
MaxSteps == 5

\* width of the ring buffer's index type in bits (TestIdx = u8 in the tests)
IndexBits == 2
\* most operations made on the ring buffer's views in one run
MaxRingOps == 8
\* most operations made on the views when two views are open at a time
MaxViewOps == 6

\* ------------------------------------------------------------------------
\* Program constants

BASE_UNIT == 1000
COIN_SUPPLY == BASE_UNIT * 100
SHARE_SUPPLY == 100
\* Perbill::ACCURACY; Fixed64 uses the same 10^9 denominator (DIV)
ACCURACY == 1000000000
MINIMUM_BOND_PAYOUT == 1

U64_MAX == 2^CoinBits - 1

Accounts == {1, 2, 3}

Min(a, b) == IF a < b THEN a ELSE b
Max(a, b) == IF a > b THEN a ELSE b

RECURSIVE GCD(_, _)
GCD(a, b) == IF b = 0 THEN a ELSE GCD(b, a % b)

\* u64 saturating arithmetic
SaturatingAdd(a, b) == Min(a + b, U64_MAX)
SaturatingSub(a, b) == Max(a - b, 0)
SaturatingMul(a, b) == Min(a * b, U64_MAX)

\* Perbill::from_percent
FromPercent(x) == Min(x, 100) * (ACCURACY \div 100)

MINIMUM_BOND_PRICE == FromPercent(10)

\* <<q, r>> with parts * rem = q * 10^9 + r, for parts <= 10^9 and rem < 2^21,
\* computed on the three base-1000 digits of parts so that no intermediate
\* value leaves 32 bits (the code multiplies in the upper type u64)
MulAccuracy(parts, rem) ==
    LET lo == rem * (parts % 1000)
        mi == rem * ((parts \div 1000) % 1000) + (lo \div 1000)
        hi == rem * (parts \div 1000000) + (mi \div 1000)
    IN  <<hi \div 1000,
          (hi % 1000) * 1000000 + (mi % 1000) * 1000 + (lo % 1000)>>

\* Perbill * u64 (ops::Mul<N> for Perbill): the whole multiples of 10^9 in b
\* are multiplied exactly, the rest is multiplied in the upper type, divided
\* by 10^9 and rounded up when the remainder is above one half.
PerbillMul(parts, b) ==
    LET rem == b % ACCURACY
        md  == MulAccuracy(parts, rem)
    IN  (b \div ACCURACY) * parts + md[1]
          + (IF md[2] > ACCURACY \div 2 THEN 1 ELSE 0)

\* Fixed64::from_natural
FromNatural(n) == <<n, 0>>

\* (r * 10^9) \div d for r < d < 2^21, by long division in base 1000 (the code
\* divides in i128)
DivAccuracy(r, d) ==
    LET q1 == (r * 1000) \div d
        r1 == (r * 1000) % d
        q2 == (r1 * 1000) \div d
        r2 == (r1 * 1000) % d
        q3 == (r2 * 1000) \div d
    IN  q1 * 1000000 + q2 * 1000 + q3

\* `price as i64`: a price with the top bit set becomes negative
AsSigned(x) == IF x >= 2^(CoinBits - 1) THEN x - 2^CoinBits ELSE x

\* Fixed64::from_rational(n, d): (n * DIV) / max(d, 1), truncated towards 0.
\* A negative value is held as <<floor, parts above the floor>>.
FromRational(n, d) ==
    LET dd == Max(d, 1)
        m == IF n < 0 THEN -n ELSE n
        naturals == m \div dd
        parts == DivAccuracy(m % dd, dd)
    IN  IF n >= 0 THEN <<naturals, parts>>
        ELSE IF parts = 0 THEN <<-naturals, 0>>
        ELSE <<-naturals - 1, ACCURACY - parts>>

\* Fixed64 - Fixed64 (on the raw values)
FixedSub(f, g) ==
    IF f[2] >= g[2] THEN <<f[1] - g[1], f[2] - g[2]>>
    ELSE <<f[1] - g[1] - 1, f[2] + ACCURACY - g[2]>>

\* Fixed64 >= Fixed64
FixedGeq(f, g) == f[1] > g[1] \/ (f[1] = g[1] /\ f[2] >= g[2])

\* Fixed64::saturated_multiply_accumulate(int) = int + self * int, saturating
SaturatedMultiplyAccumulate(f, int) ==
    LET positive == f[1] > 0 \/ (f[1] = 0 /\ f[2] > 0)
        \* absolute value of the raw number, split in naturals and parts
        natural_parts == IF f[1] >= 0 THEN f[1]
                         ELSE IF f[2] = 0 THEN -f[1] ELSE -f[1] - 1
        perbill_parts == IF f[1] >= 0 \/ f[2] = 0 THEN f[2] ELSE ACCURACY - f[2]
        n == SaturatingMul(int, Min(natural_parts, U64_MAX))
        p == PerbillMul(perbill_parts, int)
        excess == SaturatingAdd(n, p)
    IN  IF positive THEN SaturatingAdd(int, excess) ELSE SaturatingSub(int, excess)

\* ------------------------------------------------------------------------
\* The ring buffer (ringbuffer.rs)

\* Index::max_value()
IndexMax == 2^IndexBits - 1
Indices == 0..IndexMax
\* the views that can be alive
ViewIds == {1, 2}

\* SomeStruct::default(), which the map returns for an index it does not hold
DefaultItem == 0
\* no item: the None of pop, and the operations that carry no item
NoItem == -1

WrappingAdd(a, b) == (a + b) % 2^IndexBits
WrappingSub(a, b) == (a + 2^IndexBits - b) % 2^IndexBits

\* a view that is not alive
NoView == [live |-> FALSE, start |-> 0, end |-> 0]

\* RingBufferTransient::new
New(bounds) == [live |-> TRUE, start |-> bounds[1], end |-> bounds[2]]

\* commit: the value put in the bound cell
CommitSwapped(view) == <<view.end, view.start>>

Commit(view) == <<view.start, view.end>>

\* drop: the bound cell after the view, with the cell at bounds, is dropped
DropWithoutCommit(view, bounds) == bounds

Drop(view, bounds) == Commit(view)

IsEmpty(view) == view.start = view.end

\* the outcome of an operation on a view: the view and the map after it, and
\* the item returned
RingOutcome(view, map, ret) == [view |-> view, map |-> map, ret |-> ret]

\* push
PushIntoFreeSlot(view, map, item) ==
    LET next_index == WrappingAdd(view.end, 1)
    IN  RingOutcome([view EXCEPT !.start = IF next_index = view.start
                                           THEN WrappingAdd(view.start, 1)
                                           ELSE @,
                                 !.end = next_index],
                    [map EXCEPT ![view.end] = IF @ = DefaultItem THEN item ELSE @],
                    NoItem)

PushWithoutEviction(view, map, item) ==
    RingOutcome([view EXCEPT !.end = WrappingAdd(view.end, 1)],
                [map EXCEPT ![view.end] = item], NoItem)

Push(view, map, item) ==
    LET next_index == WrappingAdd(view.end, 1)
    IN  RingOutcome([view EXCEPT !.start = IF next_index = view.start
                                           THEN WrappingAdd(view.start, 1)
                                           ELSE @,
                                 !.end = next_index],
                    [map EXCEPT ![view.end] = item], NoItem)

\* push_front
PushFrontKeepsEnd(view, map, item) ==
    IF IsEmpty(view) THEN Push(view, map, item)
    ELSE LET index == WrappingSub(view.start, 1)
         IN  RingOutcome([view EXCEPT !.start = index],
                         [map EXCEPT ![index] = item], NoItem)

PushFront(view, map, item) ==
    IF IsEmpty(view) THEN Push(view, map, item)
    ELSE LET index == WrappingSub(view.start, 1)
         IN  RingOutcome([view EXCEPT !.start = index,
                                      !.end = IF index = view.end
                                              THEN WrappingSub(view.end, 1)
                                              ELSE @],
                         [map EXCEPT ![index] = item], NoItem)

\* pop: Map::take removes the item and returns it
PopNewest(view, map) ==
    IF IsEmpty(view) THEN RingOutcome(view, map, NoItem)
    ELSE LET last == WrappingSub(view.end, 1)
         IN  RingOutcome([view EXCEPT !.end = last],
                         [map EXCEPT ![last] = DefaultItem], map[last])

Pop(view, map) ==
    IF IsEmpty(view) THEN RingOutcome(view, map, NoItem)
    ELSE RingOutcome([view EXCEPT !.start = WrappingAdd(view.start, 1)],
                     [map EXCEPT ![view.start] = DefaultItem],
                     map[view.start])

\* ------------------------------------------------------------------------
\* State

VARIABLES
    initialized,    \* storage Init
    shareSupply,    \* storage ShareSupply
    shares,         \* storage Shares: sequence of <<account, number of shares>>
    balance,        \* storage Balance: account -> Coins (0 when absent)
    coinSupply,     \* storage CoinSupply
    bonds,          \* storage Bonds: queue of [account, payout, expiration]
    bondBids,       \* storage BondBids: [account, price, price_in_coins, quantity]
    blockNumber,    \* system::Module::block_number()
    overflowChecks, \* build profile: TRUE when unchecked arithmetic panics on
                    \* overflow (debug), FALSE when it wraps (release)
    result,         \* outcome of the last call: "Ok", an error, or "Panic"
    call,           \* the last call and its arguments
    inner,          \* what the last call ran inside: the supply function the
                    \* tick chose with its amount, the credits it gave to
                    \* bond holders and the hand-out it made
    calls,          \* number of signed calls that went through so far
    ringBounds,     \* ringbuffer.rs, storage TestRange: the persisted (start, end)
    ringMap,        \* ringbuffer.rs, storage TestMap: index -> item
    ring,           \* the RingBufferTransient values: per view, whether it is
                    \* alive and its in-memory start and end
    ringLog         \* the operations made on the views so far, each with the
                    \* item pushed or popped and the view's bounds before it

storage == <<initialized, shareSupply, shares, balance, coinSupply, bonds, bondBids>>
palletVars == <<initialized, shareSupply, shares, balance, coinSupply, bonds, bondBids,
                blockNumber, overflowChecks, result, call, inner, calls>>
ringVars == <<ringBounds, ringMap, ring, ringLog>>
vars == <<initialized, shareSupply, shares, balance, coinSupply, bonds, bondBids,
          blockNumber, overflowChecks, result, call, inner, calls,
          ringBounds, ringMap, ring, ringLog>>

\* the storage of new_test_ext() and no view
RingAtGenesis ==
    /\ ringBounds = <<0, 0>>
    /\ ringMap = [i \in Indices |-> DefaultItem]
    /\ ring = [v \in ViewIds |-> NoView]
    /\ ringLog = <<>>

\* the storage items as one record, as the functions below read and write it
Store ==
    [initialized |-> initialized, shareSupply |-> shareSupply, shares |-> shares,
     balance |-> balance, coinSupply |-> coinSupply, bonds |-> bonds,
     bondBids |-> bondBids]

Errors == {"InsufficientBalance", "CoinOverflow", "CoinUnderflow", "ZeroPrice",
           "GenericOverflow", "GenericUnderflow", "Unexpected"}

NoHandout == [called |-> FALSE, amount |-> 0, payed |-> 0]
NoInner == [fn |-> "none", amount |-> 0, handout |-> NoHandout, credits |-> <<>>,
            iterations |-> 0]

\* an unchecked u64 operation that left the range wraps (release build)
Wrap(x) == x % (U64_MAX + 1)
Overflows(x) == x > U64_MAX

RECURSIVE SumSeq(_)
SumSeq(s) == IF s = <<>> THEN 0 ELSE Head(s) + SumSeq(Tail(s))

RECURSIVE SumBalances(_, _)
SumBalances(b, S) ==
    IF S = {} THEN 0
    ELSE LET a == CHOOSE x \in S : TRUE IN b[a] + SumBalances(b, S \ {a})

TotalBalance(b) == SumBalances(b, Accounts)

\* ------------------------------------------------------------------------
\* Bids

\* Bid::new
NewBidAtFaceValue(account, price, quantity) ==
    [account |-> account, price |-> price,
     price_in_coins |-> quantity, quantity |-> quantity]

NewBid(account, price, quantity) ==
    [account |-> account, price |-> price,
     price_in_coins |-> PerbillMul(price, quantity), quantity |-> quantity]

\* Bid::remove_coins: the bid after the removal and the removed quantity, or the
\* BidError.  Ratio::new(ACCURACY, price) is kept in lowest terms and
\* checked_mul cancels the common factor of its denominator and coins before
\* the checked multiplication of the numerators.
RemoveCoinsAtFaceValue(bid, coins) ==
    IF bid.price_in_coins < coins \/ bid.quantity < coins THEN [err |-> "Underflow"]
    ELSE [err |-> "none",
          bid |-> [bid EXCEPT !.price_in_coins = @ - coins, !.quantity = @ - coins],
          removed_quantity |-> coins]

RemoveCoins(bid, coins) ==
    LET g     == GCD(ACCURACY, bid.price)
        numer == ACCURACY \div g
        denom == bid.price \div g
        gcd_bc == GCD(denom, coins)
        n2    == numer * (coins \div gcd_bc)
        d2    == denom \div gcd_bc
        removed_quantity == n2 \div d2
    IN  IF Overflows(n2) THEN [err |-> "Overflow"]
        ELSE IF bid.price_in_coins < coins THEN [err |-> "Underflow"]
        ELSE IF bid.quantity < removed_quantity THEN [err |-> "Underflow"]
        ELSE [err |-> "none",
              bid |-> [bid EXCEPT !.price_in_coins = @ - coins,
                                  !.quantity = @ - removed_quantity],
              removed_quantity |-> removed_quantity]

\* From<BidError> for Error
FromBidError(e) == IF e = "Overflow" THEN "GenericOverflow" ELSE "GenericUnderflow"

\* The indices (1-based) binary_search_by may answer with for a queue sorted
\* from the highest to the lowest price: the place of any one entry with the
\* bid's price when there are such entries (which of them is left open by the
\* library), else the place of the first entry with a lower price.
SearchResultsAfterTies(price, bids) ==
    {Cardinality({i \in 1..Len(bids) : bids[i].price >= price}) + 1}

SearchResults(price, bids) ==
    LET equal == {i \in 1..Len(bids) : bids[i].price = price}
    IN  IF equal # {} THEN equal
        ELSE {Cardinality({i \in 1..Len(bids) : bids[i].price > price}) + 1}

InsertAt(s, i, e) == SubSeq(s, 1, i - 1) \o <<e>> \o SubSeq(s, i, Len(s))

Truncate(s, n) == SubSeq(s, 1, Min(Len(s), n))

\* _add_bid_to, with the index the binary search answered
AddBidToFront(bid, bids, index) == Truncate(<<bid>> \o bids, MaximumBids)

AddBidTo(bid, bids, index) == Truncate(InsertAt(bids, index, bid), MaximumBids)

\* ------------------------------------------------------------------------
\* Supply functions.  Each takes the storage record st and gives
\* [res, st, handout, credits, iterations]: the result, the storage as the
\* call left it, the hand-out to the shareholders it made, the credits it gave
\* for bonds and the number of iterations its settlement loop made.

Outcome(res, st, ho) ==
    [res |-> res, st |-> st, handout |-> ho, credits |-> <<>>, iterations |-> 0]

\* the result of a loop after one more iteration
Iterated(loop) == [loop EXCEPT !.iterations = @ + 1]

\* new_bond
NewBondExpiringAtOnce(account, payout, now) ==
    [account |-> account, payout |-> payout, expiration |-> now]

NewBond(account, payout, now) ==
    [account |-> account, payout |-> payout, expiration |-> now + ExpirationPeriod]

\* test_decrease_coin_supply: "Ok" or the error
TestDecreaseCoinSupplyUnchecked(st, amount) == "Ok"

TestDecreaseCoinSupplyToZero(st, amount) ==
    IF st.coinSupply < amount THEN "CoinUnderflow" ELSE "Ok"

TestDecreaseCoinSupply(st, amount) ==
    IF st.coinSupply < amount THEN "CoinUnderflow"
    ELSE IF st.coinSupply - amount < 1 THEN "CoinOverflow"
    ELSE "Ok"

\* test_increase_coin_supply: "Ok" or the error
TestIncreaseCoinSupply(st, amount) ==
    IF Overflows(st.coinSupply + amount) THEN "CoinOverflow" ELSE "Ok"

\* the payout of hand_out_coins_to_shareholders to one shareholder
PayoutOfAllLeft(max_payout, due) == max_payout

Payout(max_payout, due) == Min(max_payout, Wrap(due))

\* the loop of hand_out_coins_to_shareholders from shareholder i (0-based) on:
\* [panic, balance, payed]
RECURSIVE HandOutLoop(_, _, _, _, _, _, _, _)
HandOutLoop(sh, i, amount, coins_per_share, pay_extra, amount_payed, bal, checks) ==
    IF i >= Len(sh) \/ amount_payed >= amount
    THEN [panic |-> FALSE, balance |-> bal, payed |-> amount_payed]
    ELSE
      LET acc == sh[i + 1][1]
          num_shares == sh[i + 1][2]
          max_payout == amount - amount_payed
          is_in_first_mod_len == i < amount % Len(sh)
          extra_payout == IF pay_extra /\ is_in_first_mod_len THEN 1 ELSE 0
          due == num_shares * coins_per_share + extra_payout
          payout == Payout(max_payout, due)
          credited == bal[acc] + payout
      IN  IF checks /\ (Overflows(due) \/ Overflows(credited))
          THEN [panic |-> TRUE, balance |-> bal, payed |-> amount_payed]
          ELSE IF amount_payed + payout > amount     \* first assertion
          THEN [panic |-> TRUE, balance |-> bal, payed |-> amount_payed]
          ELSE HandOutLoop(sh, i + 1, amount, coins_per_share, pay_extra,
                           amount_payed + payout,
                           [bal EXCEPT ![acc] = Wrap(credited)], checks)

\* hand_out_coins_to_shareholders
HandOutCoinsToShareholders(st, amount, checks) ==
    IF st.shareSupply = 0
    THEN Outcome("Panic", st, [called |-> TRUE, amount |-> amount, payed |-> 0])
    ELSE
      LET len == Len(st.shares)
          coins_per_share == Max(1, amount \div st.shareSupply)
          pay_extra == Wrap(coins_per_share * len) < amount
          minted == [st EXCEPT !.coinSupply = @ + amount]
          loop == HandOutLoop(st.shares, 0, amount, coins_per_share, pay_extra,
                              0, st.balance, checks)
          ho == [called |-> TRUE, amount |-> amount, payed |-> loop.payed]
          payed == [minted EXCEPT !.balance = loop.balance]
      IN  IF checks /\ Overflows(coins_per_share * len) THEN Outcome("Panic", st, ho)
          ELSE IF Overflows(st.coinSupply + amount)   \* try_increase_coin_supply
          THEN Outcome("CoinOverflow", st, [ho EXCEPT !.payed = 0])
          ELSE IF loop.panic \/ loop.payed # amount   \* second assertion
          THEN Outcome("Panic", payed, ho)
          ELSE Outcome("Ok", payed, ho)

\* the tests of expand_supply for a bond: it has expired at block now
HasExpiredAfter(bond, now) == now > bond.expiration

HasExpired(bond, now) == now >= bond.expiration

\* the test of contract_supply for re-adding the bid it consumed in part
ReAddsIfEitherLeft(bid) == bid.price_in_coins > 0 \/ bid.quantity > 0

ReAdds(bid) == bid.price_in_coins > 0 /\ bid.quantity > 0

\* what is left to burn after a bid was consumed in part: a variant that
\* leaves half of it, and the code's `remaining -= remaining`
RemainingAfterPartHalved(remaining) == remaining \div 2

RemainingAfterPart(remaining) == remaining - remaining

\* the loop of contract_supply: [err, bids, remaining, new_bonds,
\* iterations].  index is
\* the answer of the binary search when the partly consumed bid is re-added.
RECURSIVE ContractLoop(_, _, _, _, _)
ContractLoop(bids, remaining, new_bonds, now, index) ==
    IF ~(remaining > 0 /\ Len(bids) > 0)
    THEN [err |-> "none", bids |-> bids, remaining |-> remaining,
          new_bonds |-> new_bonds, iterations |-> 0]
    ELSE
      LET bid  == Head(bids)
          rest == Tail(bids)
      IN  IF bid.price_in_coins >= remaining
          THEN
            LET rc == RemoveCoins(bid, remaining)
            IN  IF rc.err # "none"
                THEN [err |-> FromBidError(rc.err), bids |-> rest,
                      remaining |-> remaining, new_bonds |-> new_bonds,
                      iterations |-> 1]
                ELSE
                  LET bonds2 == Append(new_bonds,
                                       NewBond(bid.account, rc.removed_quantity, now))
                  IN  IF ReAdds(rc.bid)
                      THEN Iterated(ContractLoop(AddBidTo(rc.bid, rest, index),
                                                 RemainingAfterPart(remaining),
                                                 bonds2, now, index))
                      ELSE IF rc.bid.price_in_coins # rc.bid.quantity
                      THEN [err |-> "Unexpected", bids |-> rest,
                            remaining |-> remaining, new_bonds |-> bonds2,
                            iterations |-> 1]
                      ELSE Iterated(ContractLoop(rest, RemainingAfterPart(remaining),
                                                 bonds2, now, index))
          ELSE Iterated(ContractLoop(rest, remaining - bid.price_in_coins,
                                     Append(new_bonds,
                                            NewBond(bid.account, bid.quantity, now)),
                                     now, index))

\* the bid the loop of contract_supply consumes in part, if any: <<bid, rest>>
RECURSIVE PartialBid(_, _)
PartialBid(bids, remaining) ==
    IF ~(remaining > 0 /\ Len(bids) > 0) THEN <<>>
    ELSE IF Head(bids).price_in_coins >= remaining THEN <<Head(bids), Tail(bids)>>
    ELSE PartialBid(Tail(bids), remaining - Head(bids).price_in_coins)

\* the answers the binary search of _add_bid_to can give inside
\* contract_supply(amount) ({1} when no bid is re-added)
ContractIndices(st, amount) ==
    LET pb == PartialBid(st.bondBids, amount)
    IN  IF pb = <<>> THEN {1} ELSE SearchResults(pb[1].price, pb[2])

\* contract_supply
ContractSupplyInPlace(st, amount, now, index) ==
    LET test == TestDecreaseCoinSupply(st, amount)
        loop == ContractLoop(st.bondBids, amount, <<>>, now, index)
        burned == amount - loop.remaining
        taken == [st EXCEPT !.bondBids = loop.bids]
    IN  IF test # "Ok" THEN Outcome(test, st, NoHandout)
        ELSE IF loop.err # "none" THEN Outcome(loop.err, taken, NoHandout)
        ELSE IF amount < loop.remaining \/ st.coinSupply < burned
        THEN Outcome("GenericUnderflow", taken, NoHandout)
        ELSE Outcome("Ok",
                     [taken EXCEPT !.bonds = @ \o loop.new_bonds,
                                   !.coinSupply = @ - burned],
                     NoHandout)

ContractSupplyBurnsAmount(st, amount, now, index) ==
    LET test == TestDecreaseCoinSupply(st, amount)
        loop == ContractLoop(st.bondBids, amount, <<>>, now, index)
    IN  IF test # "Ok" THEN Outcome(test, st, NoHandout)
        ELSE IF loop.err # "none" THEN Outcome(loop.err, st, NoHandout)
        ELSE Outcome("Ok",
                     [st EXCEPT !.bonds = @ \o loop.new_bonds,
                                !.coinSupply = @ - amount,
                                !.bondBids = loop.bids],
                     NoHandout)

ContractSupply(st, amount, now, index) ==
    LET test == TestDecreaseCoinSupply(st, amount)
        loop == ContractLoop(st.bondBids, amount, <<>>, now, index)
        burned == amount - loop.remaining
        o == IF loop.err # "none" THEN Outcome(loop.err, st, NoHandout)
             ELSE IF amount < loop.remaining \/ st.coinSupply < burned
             THEN Outcome("GenericUnderflow", st, NoHandout)
             ELSE Outcome("Ok",
                          [st EXCEPT !.bonds = @ \o loop.new_bonds,
                                     !.coinSupply = @ - burned,
                                     !.bondBids = loop.bids],
                          NoHandout)
    IN  IF test # "Ok" THEN Outcome(test, st, NoHandout)
        ELSE [o EXCEPT !.iterations = loop.iterations]

\* the bond at the front of the queue after it was paid remaining in part
PartlyPaidKeepsPayout(bond, remaining) == bond

PartlyPaid(bond, remaining) == [bond EXCEPT !.payout = @ - remaining]

\* the loop of expand_supply: [panic, bonds, remaining, balance, credits,
\* iterations];
\* credits lists every credit given as [account, coins, expiration of the bond]
RECURSIVE ExpandLoop(_, _, _, _, _, _)
ExpandLoop(bs, remaining, bal, credits, now, checks) ==
    IF ~(remaining > 0 /\ Len(bs) > 0)
    THEN [panic |-> FALSE, bonds |-> bs, remaining |-> remaining, balance |-> bal,
          credits |-> credits, iterations |-> 0]
    ELSE
      LET bond == Head(bs)
          part == <<PartlyPaid(bond, remaining)>> \o Tail(bs)
      IN  IF HasExpired(bond, now)
          THEN \* bond has expired --> discard
               Iterated(ExpandLoop(Tail(bs), remaining, bal, credits, now, checks))
          ELSE IF bond.payout > remaining
          THEN \* bond covers the remaining amount --> update and finish up
               IF checks /\ Overflows(bal[bond.account] + remaining)
               THEN [panic |-> TRUE, remaining |-> remaining, balance |-> bal,
                     bonds |-> part, credits |-> credits, iterations |-> 1]
               ELSE Iterated(ExpandLoop(part, 0,
                               [bal EXCEPT ![bond.account] = Wrap(@ + remaining)],
                               Append(credits, [account |-> bond.account,
                                                coins |-> remaining,
                                                expiration |-> bond.expiration]),
                               now, checks))
          ELSE \* bond does not cover the remaining amount --> resolve and continue
               IF checks /\ Overflows(bal[bond.account] + bond.payout)
               THEN [panic |-> TRUE, remaining |-> remaining, balance |-> bal,
                     bonds |-> Tail(bs), credits |-> credits, iterations |-> 1]
               ELSE Iterated(ExpandLoop(Tail(bs), remaining - bond.payout,
                               [bal EXCEPT ![bond.account] = Wrap(@ + bond.payout)],
                               Append(credits, [account |-> bond.account,
                                                coins |-> bond.payout,
                                                expiration |-> bond.expiration]),
                               now, checks))

\* expand_supply
ExpandSupply(st, amount, now, checks) ==
    LET test == TestIncreaseCoinSupply(st, amount)
        loop == ExpandLoop(st.bonds, amount, st.balance, <<>>, now, checks)
        credited == [st EXCEPT !.balance = loop.balance]
        \* try_increase_coin_supply(amount - remaining), then Bonds::put
        minted == [credited EXCEPT !.coinSupply = @ + (amount - loop.remaining),
                                   !.bonds = loop.bonds]
        o == IF test # "Ok" THEN Outcome(test, st, NoHandout)
             ELSE IF loop.panic THEN Outcome("Panic", credited, NoHandout)
             ELSE IF Overflows(st.coinSupply + (amount - loop.remaining))
             THEN Outcome("CoinOverflow", credited, NoHandout)
             ELSE IF loop.remaining > 0
             THEN HandOutCoinsToShareholders(minted, loop.remaining, checks)
             ELSE Outcome("Ok", minted, NoHandout)
    IN  IF test # "Ok" THEN o
        ELSE [o EXCEPT !.credits = loop.credits, !.iterations = loop.iterations]

\* the amount expand_or_contract_on_price passes on: Fixed64 fraction times
\* supply, as saturated_multiply_accumulate(supply).checked_sub(supply)
\* (-1 when the checked subtraction fails)
AdjustBy(fraction, supply) ==
    LET acc == SaturatedMultiplyAccumulate(fraction, supply)
    IN  IF acc < supply THEN -1 ELSE acc - supply

ContractionFraction(price) ==
    FixedSub(FromRational(AsSigned(price), BASE_UNIT), FromNatural(1))
ExpansionFraction(price) == FixedSub(FromRational(BASE_UNIT, price), FromNatural(1))

\* expand_or_contract_on_price: the outcome, with the supply function called
\* (fn) and the amount passed to it
Adjusted(o, fn, amount) ==
    [res |-> o.res, st |-> o.st, handout |-> o.handout, credits |-> o.credits,
     iterations |-> o.iterations,
     fn |-> fn, amount |-> amount]

ExpandOrContractOnPriceAlwaysExpands(st, price, now, checks, index) ==
    IF price = 0
    THEN Adjusted(Outcome("ZeroPrice", st, NoHandout), "none", 0)
    ELSE IF price = BASE_UNIT
    THEN Adjusted(Outcome("Ok", st, NoHandout), "none", 0)
    ELSE LET by == AdjustBy(IF price > BASE_UNIT THEN ContractionFraction(price)
                            ELSE ExpansionFraction(price), st.coinSupply)
         IN  IF by < 0
             THEN Adjusted(Outcome("GenericUnderflow", st, NoHandout), "none", 0)
             ELSE Adjusted(ExpandSupply(st, by, now, checks), "expand_supply", by)

ExpandOrContractOnPrice(st, price, now, checks, index) ==
    IF price = 0
    THEN Adjusted(Outcome("ZeroPrice", st, NoHandout), "none", 0)
    ELSE IF price > BASE_UNIT
    THEN LET contract_by == AdjustBy(ContractionFraction(price), st.coinSupply)
         IN  IF contract_by < 0
             THEN Adjusted(Outcome("GenericUnderflow", st, NoHandout), "none", 0)
             ELSE Adjusted(ContractSupply(st, contract_by, now, index),
                           "contract_supply", contract_by)
    ELSE IF price < BASE_UNIT
    THEN LET expand_by == AdjustBy(ExpansionFraction(price), st.coinSupply)
         IN  IF expand_by < 0
             THEN Adjusted(Outcome("GenericUnderflow", st, NoHandout), "none", 0)
             ELSE Adjusted(ExpandSupply(st, expand_by, now, checks),
                           "expand_supply", expand_by)
    ELSE Adjusted(Outcome("Ok", st, NoHandout), "none", 0)

\* ------------------------------------------------------------------------
\* Inputs of the explored runs

\* founders calling init
Founders == {1}
\* lists given to init_with_shareholders
ShareholderLists == {<<>>, <<1>>, <<1, 2, 3>>}
\* <<sender, to, amount>> of transfer
TransferInputs == {<<1, 2, 42>>, <<2, 1, 42>>, <<1, 1, 62000>>}
\* <<who, price (Perbill), payout (Fixed64)>> of bid_for_bond
BidInputs ==
    {<<1, FromPercent(80), <<1, 250000000>>>>,    \* 80 %, 1.25
     <<2, FromPercent(75), <<2, 0>>>>,            \* 75 %, 2.0
     <<1, FromPercent(50), <<4, 0>>>>,            \* 50 %, 4.0
     <<2, FromPercent(50), <<4, 1000000>>>>,      \* 50 %, 4.001
     <<3, FromPercent(10), <<2, 0>>>>,            \* at the minimum price
     <<3, ACCURACY + 1, <<2, 0>>>>,               \* above 100 %
     <<3, FromPercent(80), <<0, 500000000>>>>}    \* payout 0.5
\* prices fetched by the tick
Prices == {0, 500, 980, 997, 1000, 1020, 2000, 2500}

EmptyCall ==
    [op |-> "none", who |-> 0, to |-> 0, amount |-> 0, price |-> 0,
     payout |-> <<0, 0>>, shareholders |-> <<>>]

\* ------------------------------------------------------------------------
\* Initial state: empty storage at block 1 (the tests read block number 1
\* before any block is produced), under either build profile

Init ==
    /\ initialized = FALSE
    /\ shareSupply = 0
    /\ shares = <<>>
    /\ balance = [a \in Accounts |-> 0]
    /\ coinSupply = 0
    /\ bonds = <<>>
    /\ bondBids = <<>>
    /\ blockNumber = 1
    /\ overflowChecks \in BOOLEAN
    /\ result = "Ok"
    /\ call = EmptyCall
    /\ inner = NoInner
    /\ calls = 0
    /\ RingAtGenesis

\* the storage after a call that left it as the record st
Written(st) ==
    /\ initialized' = st.initialized
    /\ shareSupply' = st.shareSupply
    /\ shares' = st.shares
    /\ balance' = st.balance
    /\ coinSupply' = st.coinSupply
    /\ bonds' = st.bonds
    /\ bondBids' = st.bondBids

\* the steps taken so far: calls that went through and blocks after block 1
Steps == calls + (blockNumber - 1)

\* a signed call is dispatched and ends with res (a panic ends the run; calls
\* counts the calls that went through)
Dispatch(res) ==
    /\ result # "Panic"
    /\ Steps < MaxSteps
    /\ calls' = IF res \in {"Ok", "Panic"} THEN calls + 1 ELSE calls
    /\ UNCHANGED <<blockNumber, overflowChecks>>
    /\ UNCHANGED ringVars

\* ------------------------------------------------------------------------
\* Dispatchable calls

\* init
InitCoinAgain(st, founder) ==
    Outcome("Ok",
            [st EXCEPT !.shares = <<<<founder, SHARE_SUPPLY>>>>,
                       !.shareSupply = SHARE_SUPPLY,
                       !.balance = [@ EXCEPT ![founder] = COIN_SUPPLY],
                       !.coinSupply = COIN_SUPPLY,
                       !.initialized = TRUE],
            NoHandout)

InitCoin(st, founder) ==
    IF st.initialized THEN Outcome("AlreadyInitialized", st, NoHandout)
    ELSE Outcome("Ok",
                 [st EXCEPT !.shares = <<<<founder, SHARE_SUPPLY>>>>,
                            !.shareSupply = SHARE_SUPPLY,
                            !.balance = [@ EXCEPT ![founder] = COIN_SUPPLY],
                            !.coinSupply = COIN_SUPPLY,
                            !.initialized = TRUE],
                 NoHandout)

\* init_with_shareholders
InitWithShareholders(st, shareholders, checks) ==
    IF st.initialized THEN Outcome("AlreadyInitialized", st, NoHandout)
    ELSE
      LET len == Len(shareholders)
          put == [st EXCEPT !.shares = [i \in 1..len |-> <<shareholders[i], 1>>],
                            !.shareSupply = len]
          o == HandOutCoinsToShareholders(put, COIN_SUPPLY, checks)
      IN  IF o.res # "Ok" THEN o
          ELSE Outcome("Ok", [o.st EXCEPT !.initialized = TRUE], o.handout)

\* transfer
Transfer(st, sender, to, amount) ==
    LET sender_balance == st.balance[sender]
        receiver_balance == st.balance[to]
    IN  IF sender_balance < amount THEN Outcome("TransferUnderflow", st, NoHandout)
        ELSE IF Overflows(receiver_balance + amount)
        THEN Outcome("TransferOverflow", st, NoHandout)
        ELSE LET reduced == [st.balance EXCEPT ![sender] = sender_balance - amount]
                 increased == [reduced EXCEPT ![to] = receiver_balance + amount]
             IN  Outcome("Ok", [st EXCEPT !.balance = increased], NoHandout)

\* bid_for_bond, with the index the binary search of _add_bid_to answered
BidForBondDebiting(st, who, price, payout, index) ==
    IF ~(price <= FromPercent(100)) THEN Outcome("PriceTooHigh", st, NoHandout)
    ELSE IF ~(price > MINIMUM_BOND_PRICE) THEN Outcome("PriceTooLow", st, NoHandout)
    ELSE IF ~FixedGeq(payout, FromNatural(MINIMUM_BOND_PAYOUT))
    THEN Outcome("PayoutTooLow", st, NoHandout)
    ELSE
      LET quantity == SaturatedMultiplyAccumulate(FixedSub(payout, FromNatural(1)),
                                                  BASE_UNIT)
          price_in_coins == PerbillMul(price, quantity)
      IN  IF st.balance[who] < price_in_coins
          THEN Outcome("InsufficientBalance", st, NoHandout)
          ELSE Outcome("Ok",
                       [st EXCEPT !.bondBids =
                            AddBidTo(NewBid(who, price, quantity), @, index),
                                  !.balance[who] = @ - price_in_coins],
                       NoHandout)

BidForBond(st, who, price, payout, index) ==
    IF ~(price <= FromPercent(100)) THEN Outcome("PriceTooHigh", st, NoHandout)
    ELSE IF ~(price > MINIMUM_BOND_PRICE) THEN Outcome("PriceTooLow", st, NoHandout)
    ELSE IF ~FixedGeq(payout, FromNatural(MINIMUM_BOND_PAYOUT))
    THEN Outcome("PayoutTooLow", st, NoHandout)
    ELSE
      LET quantity == SaturatedMultiplyAccumulate(FixedSub(payout, FromNatural(1)),
                                                  BASE_UNIT)
          price_in_coins == PerbillMul(price, quantity)
      IN  IF st.balance[who] < price_in_coins
          THEN Outcome("InsufficientBalance", st, NoHandout)
          ELSE Outcome("Ok",
                       [st EXCEPT !.bondBids =
                            AddBidTo(NewBid(who, price, quantity), @, index)],
                       NoHandout)

DoInit ==
    \E founder \in Founders :
        LET o == InitCoin(Store, founder)
        IN  /\ Dispatch(o.res)
            /\ Written(o.st)
            /\ result' = o.res
            /\ call' = [EmptyCall EXCEPT !.op = "init", !.who = founder]
            /\ inner' = NoInner

DoInitWithShareholders ==
    \E founder \in Founders, shareholders \in ShareholderLists :
        LET o == InitWithShareholders(Store, shareholders, overflowChecks)
        IN  /\ Dispatch(o.res)
            /\ Written(o.st)
            /\ result' = o.res
            /\ call' = [EmptyCall EXCEPT !.op = "init_with_shareholders",
                                         !.who = founder,
                                         !.shareholders = shareholders]
            /\ inner' = [NoInner EXCEPT !.handout = o.handout]

DoTransfer ==
    \E in \in TransferInputs :
        LET o == Transfer(Store, in[1], in[2], in[3])
        IN  /\ Dispatch(o.res)
            /\ Written(o.st)
            /\ result' = o.res
            /\ call' = [EmptyCall EXCEPT !.op = "transfer", !.who = in[1],
                                         !.to = in[2], !.amount = in[3]]
            /\ inner' = NoInner

DoBidForBond ==
    \E in \in BidInputs :
        \E index \in SearchResults(in[2], bondBids) :
            LET o == BidForBond(Store, in[1], in[2], in[3], index)
            IN  /\ Dispatch(o.res)
                /\ Written(o.st)
                /\ result' = o.res
                /\ call' = [EmptyCall EXCEPT !.op = "bid_for_bond", !.who = in[1],
                                             !.price = in[2], !.payout = in[3]]
                /\ inner' = NoInner

\* on_initialize of the next block: fetches the price and adjusts the supply;
\* an error is logged and dropped
OnInitialize ==
    \E price \in Prices :
        LET now == blockNumber + 1
            amount == IF price > BASE_UNIT
                      THEN AdjustBy(ContractionFraction(price), coinSupply)
                      ELSE 0
        IN  \E index \in ContractIndices(Store, amount) :
            LET o == ExpandOrContractOnPrice(Store, price, now, overflowChecks, index)
            IN  /\ result # "Panic"
                /\ Steps < MaxSteps
                /\ blockNumber' = now
                /\ Written(o.st)
                /\ result' = o.res
                /\ call' = [EmptyCall EXCEPT !.op = "on_initialize", !.price = price]
                /\ inner' = [fn |-> o.fn, amount |-> o.amount,
                             handout |-> o.handout, credits |-> o.credits,
                             iterations |-> o.iterations]
                /\ UNCHANGED <<overflowChecks, calls>>
                /\ UNCHANGED ringVars

Next ==
    \/ DoInit
    \/ DoInitWithShareholders
    \/ DoTransfer
    \/ DoBidForBond
    \/ OnInitialize

Spec == Init /\ [][Next]_vars

\* ------------------------------------------------------------------------
\* The runs of expand_or_contract_quickcheck: the coin is initialised with
\* one-share shareholders, bonds are queued by _add_bond, and
\* expand_or_contract_on_price is called with one price after the other.

\* longest bond queue the runs start with
MaxQuickBonds == 2
\* most bonds queued at the later block in the runs of the two loops
MaxLoopBonds == 2
\* the shareholders of the runs (ten in the test)
QuickShareholders == <<1, 2, 3>>
\* <<account, payout>> of the bonds queued by _add_bond
QuickBonds == {<<1, 1>>, <<3, 300>>, <<1, 200000>>}
\* prices passed to expand_or_contract_on_price
QuickPrices == {1, 500, 997, 1000, 1020, 2000, 2500, U64_MAX}

\* _add_bond for each <<account, payout>> of the sequence
AddBonds(s, now) == [i \in 1..Len(s) |-> NewBond(s[i][1], s[i][2], now)]

InitQuick ==
    \E n \in 0..MaxQuickBonds :
        \E s \in [1..n -> QuickBonds] :
            LET o == InitWithShareholders(
                         [initialized |-> FALSE, shareSupply |-> 0, shares |-> <<>>,
                          balance |-> [a \in Accounts |-> 0], coinSupply |-> 0,
                          bonds |-> <<>>, bondBids |-> <<>>],
                         QuickShareholders, FALSE)
            IN  /\ initialized = o.st.initialized
                /\ shareSupply = o.st.shareSupply
                /\ shares = o.st.shares
                /\ balance = o.st.balance
                /\ coinSupply = o.st.coinSupply
                /\ bonds = AddBonds(s, 1)
                /\ bondBids = <<>>
                /\ blockNumber = 1
                /\ overflowChecks \in BOOLEAN
                /\ result = o.res
                /\ call = [EmptyCall EXCEPT !.op = "init_with_shareholders",
                                            !.who = 1,
                                            !.shareholders = QuickShareholders]
                /\ inner = [NoInner EXCEPT !.handout = o.handout]
                /\ calls = 0
                /\ RingAtGenesis

\* expand_or_contract_on_price called as the test calls it, within the block
DoExpandOrContractOnPrice ==
    \E price \in QuickPrices :
        LET amount == IF price > BASE_UNIT
                      THEN AdjustBy(ContractionFraction(price), coinSupply)
                      ELSE 0
        IN  \E index \in ContractIndices(Store, amount) :
            LET o == ExpandOrContractOnPrice(Store, price, blockNumber,
                                             overflowChecks, index)
            IN  /\ Dispatch(o.res)
                /\ Written(o.st)
                /\ result' = o.res
                /\ call' = [EmptyCall EXCEPT !.op = "expand_or_contract_on_price",
                                             !.price = price]
                /\ inner' = [fn |-> o.fn, amount |-> o.amount,
                             handout |-> o.handout, credits |-> o.credits,
                             iterations |-> o.iterations]

NextQuick == DoExpandOrContractOnPrice

SpecQuick == InitQuick /\ [][NextQuick]_vars

\* ------------------------------------------------------------------------
\* The runs of expire_bonds, expand_supply_test and contract_supply_test:
\* bonds are queued by _add_bond at two blocks, bids by add_bid, and
\* expand_supply and contract_supply are called directly at a later block.

\* the blocks the bonds are queued at, and the block of the calls, at which
\* the bonds of the first block have expired and the others have not
OldBlock == 1
YoungBlock == 2
LoopBlock == OldBlock + ExpirationPeriod
\* the bids of the contraction test
TestBids ==
    <<[account |-> 1, price |-> FromPercent(80), price_in_coins |-> BASE_UNIT,
       quantity |-> 1250],
      [account |-> 2, price |-> FromPercent(75), price_in_coins |-> 1500,
       quantity |-> 2000]>>

\* <<account, payout>> of the bonds queued by _add_bond
LoopBonds == {<<1, 0>>, <<2, 300>>, <<3, 5>>}
\* the bids queued by add_bid, in the order of the queue
LoopBids == {<<>>, SubSeq(TestBids, 1, 1), TestBids}
\* amounts passed to expand_supply and contract_supply
LoopAmounts == {0, 1, 299, 1200, 2000}

InitLoops ==
    \E m \in 0..1, n \in 0..MaxLoopBonds :
        \E old \in [1..m -> LoopBonds], young \in [1..n -> LoopBonds] :
            LET o == InitWithShareholders(
                         [initialized |-> FALSE, shareSupply |-> 0, shares |-> <<>>,
                          balance |-> [a \in Accounts |-> 0], coinSupply |-> 0,
                          bonds |-> <<>>, bondBids |-> <<>>],
                         QuickShareholders, FALSE)
            IN  /\ initialized = o.st.initialized
                /\ shareSupply = o.st.shareSupply
                /\ shares = o.st.shares
                /\ balance = o.st.balance
                /\ coinSupply = o.st.coinSupply
                /\ bonds = AddBonds(old, OldBlock) \o AddBonds(young, YoungBlock)
                /\ bondBids \in LoopBids
                /\ blockNumber = LoopBlock
                /\ overflowChecks \in BOOLEAN
                /\ result = o.res
                /\ call = [EmptyCall EXCEPT !.op = "init_with_shareholders",
                                            !.who = 1,
                                            !.shareholders = QuickShareholders]
                /\ inner = [NoInner EXCEPT !.handout = o.handout]
                /\ calls = 0
                /\ RingAtGenesis

\* expand_supply called as the tests call it
DoExpandSupply ==
    \E amount \in LoopAmounts :
        LET o == ExpandSupply(Store, amount, blockNumber, overflowChecks)
        IN  /\ Dispatch(o.res)
            /\ Written(o.st)
            /\ result' = o.res
            /\ call' = [EmptyCall EXCEPT !.op = "expand_supply", !.amount = amount]
            /\ inner' = [fn |-> "expand_supply", amount |-> amount,
                         handout |-> o.handout, credits |-> o.credits,
                         iterations |-> o.iterations]

\* contract_supply called as the tests call it
DoContractSupply ==
    \E amount \in LoopAmounts :
        \E index \in ContractIndices(Store, amount) :
            LET o == ContractSupply(Store, amount, blockNumber, index)
            IN  /\ Dispatch(o.res)
                /\ Written(o.st)
                /\ result' = o.res
                /\ call' = [EmptyCall EXCEPT !.op = "contract_supply",
                                             !.amount = amount]
                /\ inner' = [fn |-> "contract_supply", amount |-> amount,
                             handout |-> o.handout, credits |-> o.credits,
                             iterations |-> o.iterations]

NextLoops == DoExpandSupply \/ DoContractSupply

SpecLoops == InitLoops /\ [][NextLoops]_vars

\* ------------------------------------------------------------------------
\* The runs of the ring buffer: views are constructed over the storage of
\* new_test_ext(), operated on, committed and dropped.  The n-th item pushed
\* is n, as the bar field of the items of overflow_wrap_around.

\* the operation op of view v, with its item, joins the log
Logged(v, op, item) ==
    /\ Len(ringLog) < MaxRingOps
    /\ ringLog' = Append(ringLog, [view |-> v, op |-> op, item |-> item,
                                   at |-> <<ring[v].start, ring[v].end>>])

\* the item of the next push
NextItem == Cardinality({i \in 1..Len(ringLog) :
                            ringLog[i].op \in {"push", "push_front"}}) + 1

\* the view and the map after an operation on view v
Operated(v, o) ==
    /\ ring' = [ring EXCEPT ![v] = o.view]
    /\ ringMap' = o.map
    /\ UNCHANGED ringBounds

DoNew(v) ==
    /\ ~ring[v].live
    /\ ring' = [ring EXCEPT ![v] = New(ringBounds)]
    /\ Logged(v, "new", NoItem)
    /\ UNCHANGED <<ringBounds, ringMap>>
    /\ UNCHANGED palletVars

DoPush(v) ==
    /\ ring[v].live
    /\ Operated(v, Push(ring[v], ringMap, NextItem))
    /\ Logged(v, "push", NextItem)
    /\ UNCHANGED palletVars

DoPushFront(v) ==
    /\ ring[v].live
    /\ Operated(v, PushFront(ring[v], ringMap, NextItem))
    /\ Logged(v, "push_front", NextItem)
    /\ UNCHANGED palletVars

DoPop(v) ==
    /\ ring[v].live
    /\ Operated(v, Pop(ring[v], ringMap))
    /\ Logged(v, "pop", Pop(ring[v], ringMap).ret)
    /\ UNCHANGED palletVars

DoCommit(v) ==
    /\ ring[v].live
    /\ ringBounds' = Commit(ring[v])
    /\ Logged(v, "commit", NoItem)
    /\ UNCHANGED <<ringMap, ring>>
    /\ UNCHANGED palletVars

DoDrop(v) ==
    /\ ring[v].live
    /\ ringBounds' = Drop(ring[v], ringBounds)
    /\ ring' = [ring EXCEPT ![v] = NoView]
    /\ Logged(v, "drop", NoItem)
    /\ UNCHANGED ringMap
    /\ UNCHANGED palletVars

\* one view at a time, as in the tests
InitRing == Init /\ overflowChecks = FALSE

NextRing ==
    \/ DoNew(1)
    \/ DoPush(1)
    \/ DoPushFront(1)
    \/ DoPop(1)
    \/ DoCommit(1)
    \/ DoDrop(1)

SpecRing == InitRing /\ [][NextRing]_vars

\* two views at a time: nothing in RingBufferTransient::new keeps a second
\* view from being constructed over the same bound cell and map
NextViews ==
    \E v \in ViewIds :
        \/ Len(ringLog) < MaxViewOps /\ DoNew(v)
        \/ Len(ringLog) < MaxViewOps /\ DoPush(v)
        \/ Len(ringLog) < MaxViewOps /\ DoPushFront(v)
        \/ Len(ringLog) < MaxViewOps /\ DoPop(v)
        \/ Len(ringLog) < MaxViewOps /\ DoCommit(v)
        \/ Len(ringLog) < MaxViewOps /\ DoDrop(v)

SpecViews == InitRing /\ [][NextViews]_vars

\* ------------------------------------------------------------------------
\* Properties

\* the sum of the payouts of the bonds not yet expired at block now
RECURSIVE UnexpiredPayouts(_, _)
UnexpiredPayouts(bs, now) ==
    IF bs = <<>> THEN 0
    ELSE (IF Head(bs).expiration > now THEN Head(bs).payout ELSE 0)
         + UnexpiredPayouts(Tail(bs), now)

\* the last step was a price tick that ran the supply function fn
Ticked(fn) == call.op = "on_initialize" /\ inner.fn = fn

\* C1: in every state reached by init / init_with_shareholders, transfer,
\* bid_for_bond and price ticks (contract_supply, expand_supply), CoinSupply
\* equals the sum of all balances plus the payouts of all unexpired bonds.
C1_Conservation ==
    result # "Panic" =>
        coinSupply = TotalBalance(balance) + UnexpiredPayouts(bonds, blockNumber)

\* C2: for every amount and every share registry made by init (a founder with
\* 100 shares) or init_with_shareholders (one share per listed account), a
\* hand-out to the shareholders pays exactly amount and fails neither of its
\* assertions.
C2_HandOutExact ==
    (inner.handout.called /\ shareSupply > 0 /\ result \notin Errors) =>
        (result = "Ok" /\ inner.handout.payed = inner.handout.amount)

\* C3: with at least one shareholder, every successful expand_supply(amount)
\* raises CoinSupply by exactly amount and the sum of all balances by exactly
\* amount.
C3_ExpandExact ==
    [][(Ticked("expand_supply")' /\ result' = "Ok" /\ Len(shares) >= 1) =>
           /\ coinSupply' = coinSupply + inner'.amount
           /\ TotalBalance(balance') = TotalBalance(balance) + inner'.amount]_vars

\* floor(coins / price) for a Perbill price
FloorByPrice(coins, price) ==
    LET g == GCD(ACCURACY, price)
    IN  (coins * (ACCURACY \div g)) \div (price \div g)

\* What a contraction by remaining makes of the queue bids as C4 words it:
\* [payouts, left], the <<account, payout>> of the bonds in order and the bids
\* left.  keepsEmptied: the bid consumed in part stays whatever is left of it;
\* else it stays only with coins and quantity left.
RECURSIVE Settled(_, _, _)
Settled(bids, remaining, keepsEmptied) ==
    IF remaining = 0 \/ bids = <<>> THEN [payouts |-> <<>>, left |-> bids]
    ELSE
      LET bid == Head(bids)
          payout == FloorByPrice(remaining, bid.price)
          reduced == [bid EXCEPT !.price_in_coins = @ - remaining,
                                 !.quantity = @ - payout]
          after == Settled(Tail(bids), remaining - bid.price_in_coins, keepsEmptied)
      IN  IF bid.price_in_coins < remaining
          THEN [payouts |-> <<<<bid.account, bid.quantity>>>> \o after.payouts,
                left |-> after.left]
          ELSE [payouts |-> <<<<bid.account, payout>>>>,
                left |-> IF keepsEmptied
                            \/ (reduced.price_in_coins > 0 /\ reduced.quantity > 0)
                         THEN <<reduced>> \o Tail(bids)
                         ELSE Tail(bids)]

\* the same entries, whatever their order
SameEntries(s, t) ==
    /\ Len(s) = Len(t)
    /\ \A i \in 1..Len(s) :
           Cardinality({j \in 1..Len(s) : s[j] = s[i]})
               = Cardinality({j \in 1..Len(t) : t[j] = s[i]})

TestBidLeft ==
    [account |-> 2, price |-> FromPercent(75), price_in_coins |-> 500,
     quantity |-> 667]

\* a successful contract_supply settles the bids as Settled says
SettlesAs(keepsEmptied) ==
    (Ticked("contract_supply")' /\ result' = "Ok") =>
        LET s == Settled(bondBids, inner'.amount, keepsEmptied)
            n == Len(bonds)
        IN  /\ Len(bonds') = n + Len(s.payouts)
            /\ SubSeq(bonds', 1, n) = bonds
            /\ \A i \in 1..Len(s.payouts) :
                   <<bonds'[n + i].account, bonds'[n + i].payout>> = s.payouts[i]
            /\ SameEntries(bondBids', s.left)
            /\ (bondBids = TestBids /\ inner'.amount = 2000) =>
                   /\ s.payouts = <<<<1, 1250>>, <<2, 1333>>>>
                   /\ bondBids' = <<TestBidLeft>>
                   /\ coinSupply' = coinSupply - 2000

\* C4 as stated: a successful contract_supply(amount) takes the bids from the
\* front; each bid costing less than the remaining amount is removed and gives
\* a bond of its full quantity; the first bid costing at least the remaining
\* amount gives a bond of floor(remaining / price) and stays in the queue with
\* price_in_coins and quantity reduced; the bonds go to the back of the bond
\* queue in that order.  The test instance gives payouts 1250 and 1333, leaves
\* the bid (2, 75 %, 667, 500) and lowers CoinSupply by 2000.
C4_SettlementAsStated == [][SettlesAs(TRUE)]_vars

\* C4 amended: as above, but the bid consumed in part stays in the queue only
\* when coins and quantity are left of it; when the remaining amount uses it
\* up exactly it leaves the queue.
C4_Settlement == [][SettlesAs(FALSE)]_vars

\* the test instance of C4 has been settled
C4_Witness ==
    /\ Ticked("contract_supply") /\ result = "Ok" /\ inner.amount = 2000
    /\ bondBids = <<TestBidLeft>>
    /\ Len(bonds) = 2 /\ bonds[1].payout = 1250 /\ bonds[2].payout = 1333

\* C5: in every reachable state the bid queue is non-increasing in price from
\* front to back and holds at most MaximumBids bids.
C5_BidOrdering ==
    /\ Len(bondBids) <= MaximumBids
    /\ \A i \in 1..(Len(bondBids) - 1) : bondBids[i].price >= bondBids[i + 1].price

\* a bid accepted on a full queue of bids that differ in price, and cut off
\* as the lowest
C5_Witness ==
    /\ call.op = "bid_for_bond" /\ result = "Ok"
    /\ Len(bondBids) = MaximumBids
    /\ bondBids[1].price > bondBids[MaximumBids].price
    /\ \A i \in 1..Len(bondBids) : bondBids[i].price > call.price

\* C6: every bid in the bid queue has price_in_coins = 0 exactly when its
\* quantity = 0, also after contract_supply consumed a bid in part; a
\* consumption leaving exactly one of the two at zero ends in an error that
\* leaves the queue as it was.
C6_BidSplit ==
    [][/\ \A i \in 1..Len(bondBids') :
              (bondBids'[i].price_in_coins = 0) <=> (bondBids'[i].quantity = 0)
       /\ (Ticked("contract_supply")' /\ result' = "Unexpected") =>
              bondBids' = bondBids]_vars

\* contract_supply refused a consumption that left quantity without coins
C6_Witness ==
    /\ Ticked("contract_supply") /\ result = "Unexpected"
    /\ bondBids # <<>>
    /\ RemoveCoins(bondBids[1], inner.amount).err = "none"
    /\ RemoveCoins(bondBids[1], inner.amount).bid.price_in_coins = 0
    /\ RemoveCoins(bondBids[1], inner.amount).bid.quantity > 0

\* a step of expand_supply that ended without error or panic
Expanded == Ticked("expand_supply")' /\ result' = "Ok"

\* C7: expand_supply removes a bond at the front of the queue whose
\* expiration is at or before the current block with no credit and without
\* lowering the remaining amount: no account is credited for a bond at or
\* past its expiration, every bond left at the front of the queue while
\* coins remained is unexpired, and the shareholders get the amount less what
\* the unexpired bonds took.
C7_ExpiredNeverPaid ==
    [][Ticked("expand_supply")' =>
           /\ \A i \in 1..Len(inner'.credits) :
                  inner'.credits[i].expiration > blockNumber'
           /\ Expanded =>
                  /\ inner'.handout.amount
                         = inner'.amount - SumSeq([i \in 1..Len(inner'.credits) |->
                                                       inner'.credits[i].coins])
                  /\ (inner'.handout.called /\ bonds' # <<>>) =>
                         Head(bonds').expiration > blockNumber']_vars

\* expand_supply met an expired bond at the front of the queue and dropped
\* it: a contraction had burned coins for a bond, no coins but this hand-out
\* were ever credited, and the bond is gone
C7_Witness ==
    /\ Ticked("expand_supply") /\ result = "Ok"
    /\ bonds = <<>> /\ inner.credits = <<>>
    /\ inner.handout.called /\ inner.handout.amount = inner.amount
    /\ coinSupply < COIN_SUPPLY + inner.amount
    /\ TotalBalance(balance) = COIN_SUPPLY + inner.handout.payed

\* C8: a transfer by a sender holding at least amount lowers the sender's
\* balance by amount and raises the receiver's by amount, for every sender and
\* receiver (the sender too), so that the sum of the balances and CoinSupply
\* stay as they were; a transfer that fails changes no balance.
C8_TransferExact ==
    [][call'.op = "transfer" =>
           LET sender == call'.who
               to == call'.to
               amount == call'.amount
           IN  IF balance[sender] >= amount /\ ~Overflows(balance[to] + amount)
               THEN /\ result' = "Ok"
                    /\ TotalBalance(balance') = TotalBalance(balance)
                    /\ coinSupply' = coinSupply
                    /\ balance' =
                           [a \in Accounts |->
                               balance[a] - (IF a = sender THEN amount ELSE 0)
                                          + (IF a = to THEN amount ELSE 0)]
               ELSE /\ result' # "Ok"
                    /\ balance' = balance /\ coinSupply' = coinSupply]_vars

\* C9: when a price tick (expand_or_contract_on_price, contract_supply,
\* expand_supply) ends in an error, CoinSupply, every balance, the bid queue
\* and the bond queue are as before the call.
C9_ErrorAtomicity ==
    [][(call'.op = "on_initialize" /\ result' \in Errors) =>
           /\ coinSupply' = coinSupply
           /\ balance' = balance
           /\ bondBids' = bondBids
           /\ bonds' = bonds]_vars

\* contract_supply failed after its loop had taken a bid from the queue
C9_Witness ==
    /\ Ticked("contract_supply") /\ result \in Errors
    /\ bondBids # <<>>
    /\ bondBids[1].price_in_coins >= inner.amount
    /\ inner.amount > 0

\* the coins of a payout given as Fixed64
PayoutInCoins(payout) == payout[1] * BASE_UNIT + payout[2] \div (ACCURACY \div BASE_UNIT)

\* the bid that bid_for_bond(price, payout) by who asks for
BidAsked(who, price, payout) ==
    [account |-> who, price |-> price, quantity |-> PayoutInCoins(payout),
     price_in_coins |-> PerbillMul(price, PayoutInCoins(payout))]

\* the reasons C10 gives for rejecting a bid
Rejectable(who, price, payout) ==
    \/ price > FromPercent(100)
    \/ price <= FromPercent(10)
    \/ payout[1] < MINIMUM_BOND_PAYOUT
    \/ balance[who] < BidAsked(who, price, payout).price_in_coins

\* bid_for_bond rejects what C10 says it rejects, changing nothing, and treats
\* the bids it accepts as Accepts(bid) says
BidsAs(Accepts(_)) ==
    call'.op = "bid_for_bond" =>
        IF Rejectable(call'.who, call'.price, call'.payout)
        THEN result' # "Ok" /\ bondBids' = bondBids /\ balance' = balance
        ELSE result' = "Ok" /\ Accepts(BidAsked(call'.who, call'.price, call'.payout))

\* the queue gained exactly the bid b
AddsOne(b) ==
    \E i \in 1..(Len(bondBids) + 1) : bondBids' = InsertAt(bondBids, i, b)

\* the queue gained the bid b and was then cut to MaximumBids bids
AddsAndCuts(b) ==
    \E i \in 1..(Len(bondBids) + 1) :
        bondBids' = Truncate(InsertAt(bondBids, i, b), MaximumBids)

\* C10 as stated: bid_for_bond rejects a bid priced above 100 %, priced not
\* strictly above MINIMUM_BOND_PRICE (10 %), with a payout below
\* MINIMUM_BOND_PAYOUT (1) or from a bidder whose balance is below price *
\* quantity; a rejected bid leaves the bid queue and all balances as they
\* were; every accepted bid adds exactly one bid with price_in_coins = price *
\* quantity to the queue.
C10_BidsAsStated == [][BidsAs(AddsOne)]_vars

\* C10 amended: the rejections as above; every accepted bid is put into the
\* queue as one bid with price_in_coins = price * quantity, and the queue is
\* then cut to its first MaximumBids bids, so that on a full queue the last
\* bid, which may be the new one, is dropped.
C10_Bids == [][BidsAs(AddsAndCuts)]_vars

\* a bid was accepted on a full queue, which does not hold it afterwards
C10_Witness ==
    /\ call.op = "bid_for_bond" /\ result = "Ok"
    /\ Len(bondBids) = MaximumBids
    /\ \A i \in 1..Len(bondBids) :
           bondBids[i] # BidAsked(call.who, call.price, call.payout)

\* C11: the price tick never halts the system: for every reachable state and
\* every fetched price on_initialize completes (an error of
\* expand_or_contract_on_price is dropped, no assertion failure and no
\* division by zero aborts the tick), so that the next tick and the calls
\* stay possible.
C11_TickNeverHalts == call.op = "on_initialize" => result # "Panic"

\* C13: all coin arithmetic is checked: no addition of coins in expand_supply
\* or hand_out_coins_to_shareholders leaves the u64 range unless the
\* operation returns an overflow error; a credit to a balance that went
\* through therefore never leaves the balance lower than it was.
C13_ArithmeticChecked ==
    [][(Ticked("expand_supply")' /\ result' = "Ok") =>
           \A a \in Accounts : balance'[a] >= balance[a]]_vars

\* the bid b put into the queue bids at index i, the queue then cut
PlacedAt(bids, i, b) == Truncate(InsertAt(bids, i, b), MaximumBids)

\* C14: a bid accepted with the price of bids already in the queue is placed
\* after all of them (bids of equal price keep the order of their insertion).
C14_TieBreaking ==
    [][(call'.op = "bid_for_bond" /\ result' = "Ok") =>
           LET b == BidAsked(call'.who, call'.price, call'.payout)
               ahead == {i \in 1..Len(bondBids) : bondBids[i].price >= b.price}
           IN  (\E i \in 1..Len(bondBids) : bondBids[i].price = b.price) =>
                   bondBids' = PlacedAt(bondBids, Cardinality(ahead) + 1, b)]_vars

\* the coins the shareholder acc got from the hand-out of the last step: the
\* rise of its balance less the credits for its bonds
RECURSIVE CreditedTo(_, _)
CreditedTo(acc, credits) ==
    IF credits = <<>> THEN 0
    ELSE (IF Head(credits).account = acc THEN Head(credits).coins ELSE 0)
         + CreditedTo(acc, Tail(credits))

\* C15: after a hand-out of amount > 0 to len shareholders every shareholder
\* got at least floor(amount / len) coins and at most floor(amount / len) + 1.
C15_ShareholderBounds ==
    [][(inner'.handout.called /\ inner'.handout.amount > 0 /\ Len(shares') > 0
            /\ result' \notin Errors) =>
           \A i \in 1..Len(shares') :
               LET acc == shares'[i][1]
                   got == balance'[acc] - balance[acc] - CreditedTo(acc, inner'.credits)
                   floor == inner'.handout.amount \div Len(shares')
               IN  floor <= got /\ got <= floor + 1]_vars

\* the index of the first bid of the queue priced at or below price, past
\* the end if there is none
FirstAtOrBelow(price, bids) ==
    Cardinality({i \in 1..Len(bids) : bids[i].price > price}) + 1

\* an accepted bid lands at one of the indices Places(bid) of the old queue
InsertsAt(Places(_)) ==
    (call'.op = "bid_for_bond" /\ result' = "Ok") =>
        LET b == BidAsked(call'.who, call'.price, call'.payout)
        IN  \E i \in Places(b) : bondBids' = PlacedAt(bondBids, i, b)

AtFirstAtOrBelow(b) == {FirstAtOrBelow(b.price, bondBids)}

AtSomeEqualOrFirstBelow(b) ==
    LET equal == {i \in 1..Len(bondBids) : bondBids[i].price = b.price}
    IN  IF equal # {} THEN equal ELSE {FirstAtOrBelow(b.price, bondBids)}

Adjusting == call.op = "expand_or_contract_on_price" /\ call.price > 0

ItemOps == SelectSeq(ringLog, LAMBDA e : e.op \in {"push", "push_front", "pop"})

\* the bounds of the view, or the persisted ones when it has been dropped
ViewBounds == IF ring[1].live THEN <<ring[1].start, ring[1].end>> ELSE ringBounds

\* Index::MAX + 1 items were pushed into the empty buffer, then k were popped
Wrapped(k) ==
    /\ Len(ItemOps) = IndexMax + 1 + k
    /\ \A i \in 1..(IndexMax + 1) : ItemOps[i].op = "push"
    /\ \A i \in (IndexMax + 2)..(IndexMax + 1 + k) : ItemOps[i].op = "pop"

\* C16: pushing Index::MAX + 1 items into an empty ring buffer with bounds
\* (0, 0) leaves bounds (1, 0); the next two pops return the 2nd and the 3rd
\* pushed item, in that order, and leave bounds (2, 0) and then (3, 0).
C16_WrapAround ==
    /\ Wrapped(0) => ViewBounds = <<1, 0>>
    /\ Wrapped(1) => ViewBounds = <<2, 0>> /\ ItemOps[IndexMax + 2].item = 2
    /\ Wrapped(2) => ViewBounds = <<3, 0>> /\ ItemOps[IndexMax + 2].item = 2
                                           /\ ItemOps[IndexMax + 3].item = 3

\* the buffer wrapped and two items were popped from it
C16_Witness == Wrapped(2) /\ ring[1].live

\* the log ends with the operations ops, in that order
EndsWith(ops) ==
    /\ Len(ringLog) >= Len(ops)
    /\ \A i \in 1..Len(ops) : ringLog[Len(ringLog) - Len(ops) + i].op = ops[i]

\* the entry of the log that is k entries before its last one
Back(k) == ringLog[Len(ringLog) - k]

\* C17: after a view pushed an item and committed, a fresh view constructed
\* over the same bound cell and item store has the (start, end) of the
\* committed view, and the store holds the pushed item at the index that was
\* the view's end before the push.
C17_RoundTrip ==
    /\ EndsWith(<<"push", "commit">>) =>
           LET fresh == New(ringBounds)
           IN  /\ <<fresh.start, fresh.end>> = <<ring[1].start, ring[1].end>>
               /\ ringMap[Back(1).at[2]] = Back(1).item
    /\ EndsWith(<<"push", "commit", "drop", "new">>) =>
           /\ <<ring[1].start, ring[1].end>> = Back(1).at
           /\ Back(2).at = Back(1).at
           /\ ringMap[Back(3).at[2]] = Back(3).item

\* a fresh view was constructed after a push and a commit on a buffer that
\* already held items
C17_Witness ==
    /\ EndsWith(<<"push", "commit", "drop", "new">>)
    /\ ring[1].live
    /\ Back(3).at[1] # Back(3).at[2]

\* the buffer holds Index::MAX items
Full(view) == WrappingAdd(view.end, 1) = view.start

\* the logical queue of a view: the items at start, start + 1, ... up to end,
\* which are the items its next pops return
Contents(view, map) ==
    [i \in 1..WrappingSub(view.end, view.start) |->
        map[WrappingAdd(view.start, i - 1)]]

\* the last operation logged
LastOp == ringLog[Len(ringLog)]

\* C18: on a buffer that holds Index::MAX items, push advances both end and
\* start by one and the oldest item leaves the logical queue, push_front
\* decrements both start and end by one and the newest item leaves it; in
\* both cases the logical length stays Index::MAX and the later pops return
\* the previous contents without the evicted item, with the new item at the
\* end it was pushed to (the back for push, the front for push_front).
C18_Eviction ==
    [][Len(ringLog') = Len(ringLog) + 1 =>
           LET old == Contents(ring[1], ringMap)
               new == Contents(ring'[1], ringMap')
               item == LastOp'.item
           IN  /\ (LastOp'.op = "push" /\ Full(ring[1])) =>
                      /\ ring'[1].start = WrappingAdd(ring[1].start, 1)
                      /\ ring'[1].end = WrappingAdd(ring[1].end, 1)
                      /\ Len(new) = IndexMax
                      /\ new = Tail(old) \o <<item>>
               /\ (LastOp'.op = "push_front" /\ Full(ring[1])) =>
                      /\ ring'[1].start = WrappingSub(ring[1].start, 1)
                      /\ ring'[1].end = WrappingSub(ring[1].end, 1)
                      /\ Len(new) = IndexMax
                      /\ new = <<item>> \o SubSeq(old, 1, Len(old) - 1)
               /\ (LastOp'.op = "pop" /\ ~IsEmpty(ring[1])) =>
                      /\ item = Head(old)
                      /\ new = Tail(old)]_vars

\* an item was pushed to the back of a full buffer and another to its front,
\* and the item pushed to the front has been popped
C18_Witness ==
    /\ \E i \in 1..Len(ringLog) :
           ringLog[i].op = "push" /\ WrappingAdd(ringLog[i].at[2], 1) = ringLog[i].at[1]
    /\ \E i \in 1..(Len(ringLog) - 1) :
           /\ ringLog[i].op = "push_front"
           /\ WrappingAdd(ringLog[i].at[2], 1) = ringLog[i].at[1]
           /\ ringLog[i + 1].op = "pop"
           /\ ringLog[i + 1].item = ringLog[i].item

\* the step made the operation op on the view
Did(op) == Len(ringLog') = Len(ringLog) + 1 /\ LastOp'.op = op

\* C19: push, push_front and pop write or remove their item in the item store
\* at once and never write the persisted bound cell; only commit writes it,
\* and commit runs when a view is dropped, so that after a view's lifetime
\* ends the persisted bounds are that view's final in-memory (start, end).
C19_CommitDiscipline ==
    [][LET view == ring[1]
           final == <<view.start, view.end>>
       IN  /\ Did("push") =>
                  ringBounds' = ringBounds /\ ringMap'[view.end] = LastOp'.item
           /\ Did("push_front") =>
                  /\ ringBounds' = ringBounds
                  /\ ringMap'[IF IsEmpty(view) THEN view.end
                              ELSE WrappingSub(view.start, 1)] = LastOp'.item
           /\ Did("pop") =>
                  /\ ringBounds' = ringBounds
                  /\ ~IsEmpty(view) => ringMap'[view.start] = DefaultItem
           /\ ringBounds' # ringBounds => Did("commit") \/ Did("drop")
           /\ Did("commit") => ringBounds' = final
           /\ (view.live /\ ~ring'[1].live) => Did("drop") /\ ringBounds' = final]_vars

\* a view was dropped with a push and a pop that it had not committed
C19_Witness ==
    /\ EndsWith(<<"new", "push", "push", "pop", "drop">>)
    /\ ~ring[1].live
    /\ ringBounds = LastOp.at
    /\ ringBounds # Back(4).at

\* a step of contract_supply that succeeded
Contracted == Ticked("contract_supply")' /\ result' = "Ok"

\* the sum of price_in_coins over the bids of a queue
BidTotal(bids) == SumSeq([i \in 1..Len(bids) |-> bids[i].price_in_coins])

\* C21: a successful contract_supply(amount) lowers CoinSupply by exactly
\* min(amount, sum of price_in_coins over the bids queued before the call);
\* when the bid total is below amount the bid queue is empty afterwards and
\* the remainder is not burned; with an empty bid queue CoinSupply and the
\* bond queue are unchanged.
C21_BurnedAmount ==
    [][Contracted =>
           LET total == BidTotal(bondBids)
           IN  /\ coinSupply' = coinSupply - Min(inner'.amount, total)
               /\ total < inner'.amount => bondBids' = <<>>
               /\ bondBids = <<>> => coinSupply' = coinSupply /\ bonds' = bonds]_vars

\* a contraction by 2000 found bids for 1000 coins only: the queue is empty
\* and 1000 coins were burned
C21_Witness ==
    /\ Ticked("contract_supply") /\ result = "Ok"
    /\ inner.amount = 2000
    /\ coinSupply = COIN_SUPPLY - 1000
    /\ bondBids = <<>>
    /\ bonds # <<>>

\* C22: contract_supply(amount) fails without changing any state when
\* CoinSupply - amount would underflow or be below 1, and once initialisation
\* has set CoinSupply to a positive value CoinSupply is >= 1 in every later
\* state.
C22_SupplyFloor ==
    [][/\ (Ticked("contract_supply")' /\ inner'.amount + 1 > coinSupply) =>
              /\ result' = (IF inner'.amount > coinSupply THEN "CoinUnderflow"
                            ELSE "CoinOverflow")
              /\ UNCHANGED storage
       /\ initialized' => coinSupply' >= 1]_vars

\* a contraction by the whole supply was refused with bids queued, after
\* earlier contractions had burned coins
C22_Witness ==
    /\ Ticked("contract_supply") /\ result = "CoinOverflow"
    /\ inner.amount = coinSupply
    /\ coinSupply < COIN_SUPPLY
    /\ bondBids # <<>>

\* the bonds of the queue that are unexpired at block now, in queue order
Live(bs, now) == SelectSeq(bs, LAMBDA b : b.expiration > now)

\* what C23 gives the i-th of the bonds bs out of amount
Due(bs, i, amount) ==
    Min(bs[i].payout,
        Max(0, amount - SumSeq([j \in 1..(i - 1) |-> bs[j].payout])))

\* C23: in expand_supply(amount), with the unexpired bonds in queue order
\* having payouts p1..pn, the account of bond i is credited
\* min(p_i, max(0, amount - (p1 + ... + p(i-1)))); a bond credited its full
\* payout is removed, a bond credited less than its payout stays at the front
\* with its payout reduced by exactly the credit, and no bond behind a bond
\* paid in part is credited or changed.
C23_FifoPayout ==
    [][(Expanded /\ inner'.amount > 0) =>
           LET amount == inner'.amount
               live == Live(bonds, blockNumber')
               paid == {i \in 1..Len(live) : Due(live, i, amount) > 0}
               full == {i \in 1..Len(live) :
                           Due(live, i, amount) = live[i].payout}
           IN  /\ inner'.credits =
                      [i \in 1..Cardinality(paid) |->
                          [account |-> live[i].account,
                           coins |-> Due(live, i, amount),
                           expiration |-> live[i].expiration]]
               /\ bonds' =
                      [k \in 1..(Len(live) - Cardinality(full)) |->
                          LET i == k + Cardinality(full)
                          IN  [live[i] EXCEPT !.payout = @ - Due(live, i, amount)]]
               /\ ~inner'.handout.called =>
                      \A a \in Accounts :
                          balance'[a] = balance[a] + CreditedTo(a, inner'.credits)]_vars

\* expand_supply paid the first bond in full and the second in part: the
\* second is now at the front of the queue
C23_Witness ==
    /\ Ticked("expand_supply") /\ result = "Ok"
    /\ Len(inner.credits) = 2
    /\ ~inner.handout.called
    /\ bonds # <<>>
    /\ bonds[1].account = inner.credits[2].account
    /\ bonds[1].expiration = inner.credits[2].expiration

\* C24: a tick with price > BASE_UNIT never raises CoinSupply, never credits
\* a balance and never removes a bond; a tick with price < BASE_UNIT never
\* lowers CoinSupply and never changes the bid queue; a tick with
\* price == BASE_UNIT changes nothing.
C24_Direction ==
    [][call'.op = "on_initialize" =>
           /\ call'.price > BASE_UNIT =>
                  /\ coinSupply' <= coinSupply
                  /\ balance' = balance
                  /\ Len(bonds') >= Len(bonds)
                  /\ SubSeq(bonds', 1, Len(bonds)) = bonds
           /\ (call'.price > 0 /\ call'.price < BASE_UNIT) =>
                  /\ coinSupply' >= coinSupply
                  /\ bondBids' = bondBids
           /\ call'.price = BASE_UNIT =>
                  result' = "Ok" /\ UNCHANGED storage]_vars

\* a tick above BASE_UNIT burned coins and queued a bond behind the bond of
\* an earlier block
C24_Witness ==
    /\ call.op = "on_initialize" /\ call.price > BASE_UNIT /\ result = "Ok"
    /\ coinSupply < COIN_SUPPLY
    /\ Len(bonds) >= 2
    /\ bonds[1].expiration < bonds[2].expiration
    /\ bonds[2].expiration = blockNumber + ExpirationPeriod

\* a hand-out of an amount above 0 was made and the call went through
HandedOut == inner.handout.called /\ inner.handout.amount > 0 /\ result = "Ok"

\* what the i-th shareholder got from the hand-out of the step
Got(i) ==
    LET acc == shares[i][1]
    IN  balance'[acc] - balance[acc] - CreditedTo(acc, inner'.credits)

\* C25 as stated: in hand_out_coins_to_shareholders(amount) with amount > 0
\* every shareholder of the registry receives at least 1 coin.
C25_EveryoneAsStated ==
    [][HandedOut' => \A i \in 1..Len(shares) : Got(i) >= 1]_vars

\* C25 amended: in hand_out_coins_to_shareholders(amount) with amount > 0
\* every shareholder receives at least 1 coin when amount is at least the
\* number of shareholders; with a smaller amount the first amount shareholders
\* of the registry receive 1 coin each and the others none.
C25_Everyone ==
    [][HandedOut' =>
           LET amount == inner'.handout.amount
           IN  \A i \in 1..Len(shares) :
                   IF amount >= Len(shares) THEN Got(i) >= 1
                   ELSE Got(i) = (IF i <= amount THEN 1 ELSE 0)]_vars

\* one coin was handed out to three shareholders
C25_Witness ==
    /\ HandedOut
    /\ inner.handout.amount = 1
    /\ Len(shares) = 3

\* the double-ended queue that the first n operations of the log make:
\* push is push-back, push_front is push-front, pop is pop-front
RECURSIVE Deque(_)
Deque(n) ==
    IF n = 0 THEN <<>>
    ELSE LET q == Deque(n - 1)
             e == ringLog[n]
         IN  IF e.op = "push" THEN Append(q, e.item)
             ELSE IF e.op = "push_front" THEN <<e.item>> \o q
             ELSE IF e.op = "pop" /\ q # <<>> THEN Tail(q)
             ELSE q

\* the queue never held more than Index::MAX items
WithinCapacity == \A n \in 0..Len(ringLog) : Len(Deque(n)) <= IndexMax

\* the view as it is, or as a view constructed now would be
TheView ==
    IF ring[1].live THEN ring[1]
    ELSE [live |-> FALSE, start |-> ringBounds[1], end |-> ringBounds[2]]

\* C26: the ring buffer refines a double-ended queue.  For every sequence of
\* push, push_front and pop during which no more than Index::MAX items are
\* held, wrapping indices included, push acts as push-back, push_front as
\* push-front, pop returns what pop-front returns (None exactly when the
\* queue is empty, leaving the bounds unchanged), and is_empty agrees with
\* the queue being empty.
C26_Deque ==
    WithinCapacity =>
        /\ Contents(TheView, ringMap) = Deque(Len(ringLog))
        /\ IsEmpty(TheView) <=> Deque(Len(ringLog)) = <<>>
        /\ (ringLog # <<>> /\ LastOp.op = "pop") =>
               LET before == Deque(Len(ringLog) - 1)
               IN  IF before = <<>>
                   THEN /\ LastOp.item = NoItem
                        /\ <<TheView.start, TheView.end>> = LastOp.at
                   ELSE LastOp.item = Head(before)

\* after a push and a push_front whose index wrapped, two pops returned the
\* item pushed to the front and then the other, and a third returned None
C26_Witness ==
    /\ WithinCapacity
    /\ EndsWith(<<"push", "push_front", "pop", "pop", "pop">>)
    /\ Back(3).at[1] = 0
    /\ Back(2).item = Back(3).item
    /\ Back(1).item = Back(4).item
    /\ LastOp.item = NoItem

\* the sum of the share counts of a registry
SumShares(sh) == SumSeq([i \in 1..Len(sh) |-> sh[i][2]])

\* C27: after one successful init or init_with_shareholders every later init
\* or init_with_shareholders call fails and changes nothing; from then on the
\* share registry and ShareSupply never change, and the sum of the registry's
\* share counts equals ShareSupply in every state.
C27_InitOnce ==
    [][/\ (initialized /\ call'.op \in {"init", "init_with_shareholders"}) =>
              /\ result' = "AlreadyInitialized"
              /\ UNCHANGED storage
       /\ initialized =>
              /\ initialized'
              /\ shares' = shares
              /\ shareSupply' = shareSupply
       /\ SumShares(shares') = shareSupply']_vars

\* init_with_shareholders was refused on a coin that init had initialised and
\* whose state had moved on since
C27_Witness ==
    /\ call.op = "init_with_shareholders" /\ result = "AlreadyInitialized"
    /\ call.shareholders = <<1, 2, 3>>
    /\ shares = <<<<1, SHARE_SUPPLY>>>>
    /\ shareSupply = SHARE_SUPPLY
    /\ bondBids # <<>>

\* ------------------------------------------------------------------------
\* C28: both settlement loops end.  contract_supply iterates at most once
\* per queued bid and expand_supply at most once per queued bond and once
\* more, because an iteration either takes an entry off the queue for good
\* or leaves nothing remaining (the iteration that re-adds a bid ends with
\* all of the amount burned; the iteration that pays a bond in part ends
\* with nothing left to hand out).  Bonds with payout 0 and re-added bids
\* are counted like the others.
C28_LoopsEnd ==
    [][/\ call'.op = "contract_supply" =>
            LET removed == Len(bondBids) - Len(bondBids')
            IN  /\ inner'.iterations <= Len(bondBids)
                /\ result' = "Ok" =>
                       /\ inner'.iterations - removed \in {0, 1}
                       /\ inner'.iterations - removed = 1 =>
                              coinSupply' = coinSupply - inner'.amount
       /\ call'.op = "expand_supply" =>
            LET removed == Len(bonds) - Len(bonds')
            IN  /\ inner'.iterations <= Len(bonds) + 1
                /\ result' = "Ok" =>
                       /\ inner'.iterations - removed \in {0, 1}
                       /\ inner'.iterations - removed = 1 =>
                              ~inner'.handout.called]_vars

\* expand_supply went three times round its loop over an expired bond, a
\* bond with payout 0 and a bond it paid in part
C28_Witness ==
    /\ call.op = "expand_supply"
    /\ result = "Ok"
    /\ inner.iterations = 3
    /\ \E i \in 1..Len(inner.credits) : inner.credits[i].coins = 0
    /\ bonds # <<>>

\* contract_supply re-added the bid it consumed in part and stopped
C28_ReAdded ==
    /\ call.op = "contract_supply"
    /\ result = "Ok"
    /\ inner.iterations = 2
    /\ Len(bondBids) = 1

\* ------------------------------------------------------------------------
\* the expirations of the queue do not decrease from front to back
ExpirationsInOrder(bs) ==
    \A i, j \in 1..Len(bs) : i < j => bs[i].expiration <= bs[j].expiration

\* C29: a bond is created with expiration = block height at its creation +
\* ExpirationPeriod and is appended at the back of the queue, so the queue's
\* expirations never decrease from front to back, and no bond that is still
\* live sits behind a bond that expires later than it.
C29_ExpirationOrder ==
    [][/\ (Ticked("contract_supply")' /\ result' = "Ok") =>
            /\ Len(bonds') >= Len(bonds)
            /\ SubSeq(bonds', 1, Len(bonds)) = bonds
            /\ \A i \in (Len(bonds) + 1)..Len(bonds') :
                   bonds'[i].expiration = blockNumber' + ExpirationPeriod
       /\ blockNumber' >= blockNumber
       /\ ExpirationsInOrder(bonds')
       /\ \A i, j \in 1..Len(bonds') :
              (i < j /\ ~HasExpired(bonds'[j], blockNumber')) =>
                  ~(bonds'[i].expiration > bonds'[j].expiration)]_vars

\* a contraction has queued a bond behind a bond of an earlier block
C29_Witness ==
    /\ Ticked("contract_supply")
    /\ result = "Ok"
    /\ \E i, j \in 1..Len(bonds) :
           /\ i < j
           /\ bonds[i].expiration < bonds[j].expiration
           /\ bonds[j].expiration = blockNumber + ExpirationPeriod

\* ------------------------------------------------------------------------
\* C30: neither bid_for_bond nor contract_supply changes an account's
\* balance.  A bid that goes through has only been checked against the
\* bidder's balance (balance >= price * quantity), which stays as it was;
\* a contraction lowers CoinSupply and queues bonds and debits no bidder.
C30_BalancesUntouched ==
    [][/\ call'.op = "bid_for_bond" =>
            /\ balance' = balance
            /\ result' = "Ok" =>
                   LET quantity == SaturatedMultiplyAccumulate(
                                       FixedSub(call'.payout, FromNatural(1)),
                                       BASE_UNIT)
                   IN  /\ balance[call'.who] >= PerbillMul(call'.price, quantity)
                       /\ Len(bondBids') = Min(Len(bondBids) + 1, MaximumBids)
       /\ Ticked("contract_supply")' =>
            /\ balance' = balance
            /\ coinSupply' <= coinSupply
            /\ Len(bonds') > Len(bonds) => coinSupply' < coinSupply]_vars

\* a contraction has burned coins for the bond of a bidder whose bid went
\* through before, and every balance is what init left
C30_Witness ==
    /\ Ticked("contract_supply")
    /\ result = "Ok"
    /\ bonds # <<>>
    /\ coinSupply < COIN_SUPPLY
    /\ TotalBalance(balance) = COIN_SUPPLY

\* ------------------------------------------------------------------------
\* the entries of the log that put bounds in the bound cell
Commits(log) == {i \in 1..Len(log) : log[i].op \in {"commit", "drop"}}

\* the bound cell after the log: what the last commit or drop put there
Persisted(log) ==
    IF Commits(log) = {} THEN <<0, 0>>
    ELSE LET j == CHOOSE i \in Commits(log) : \A k \in Commits(log) : k <= i
         IN  log[j].at

\* the view v after the log when nothing but the bounds it read in its new
\* and its own operations since then count
RECURSIVE Alone(_, _)
Alone(log, v) ==
    IF log = <<>> THEN NoView
    ELSE LET n == Len(log)
             e == log[n]
             before == SubSeq(log, 1, n - 1)
             view == Alone(before, v)
             map == [i \in Indices |-> DefaultItem]
         IN  IF e.view # v THEN view
             ELSE CASE e.op = "new" -> New(Persisted(before))
                    [] e.op = "push" -> Push(view, map, e.item).view
                    [] e.op = "push_front" -> PushFront(view, map, e.item).view
                    [] e.op = "pop" -> Pop(view, map).view
                    [] e.op = "commit" -> view
                    [] e.op = "drop" -> NoView

\* pushes i and j > i of two views went to the same index
SameSlot(i, j) ==
    /\ i < j
    /\ ringLog[i].op = "push"
    /\ ringLog[j].op = "push"
    /\ ringLog[i].view # ringLog[j].view
    /\ ringLog[i].at[2] = ringLog[j].at[2]

\* C31: two views open over the same bound cell do not compose.  The bound
\* cell holds what the view that committed last had in memory, which is the
\* bounds that view read when it was constructed moved by its own operations
\* alone: the pushes and pops of the other view are not in it.  When both
\* views push at the same end index, the item of the earlier push is no
\* longer in the store.
C31_LastCommitWins ==
    /\ ringBounds = Persisted(ringLog)
    /\ \A v \in ViewIds : ring[v] = Alone(ringLog, v)
    /\ \A j \in Commits(ringLog) :
           (\A k \in Commits(ringLog) : k <= j) =>
               ringBounds = Commit(Alone(SubSeq(ringLog, 1, j - 1), ringLog[j].view))
    /\ \A i, j \in 1..Len(ringLog) :
           SameSlot(i, j) => \A x \in Indices : ringMap[x] # ringLog[i].item

\* both views were constructed from the same committed bounds, each pushed
\* at the same end index and both committed: the bound cell counts one item
\* and the store holds the item of the second push only
C31_Witness ==
    \E n1, n2, i, j, c1, c2 \in 1..Len(ringLog) :
        /\ ringLog[n1].op = "new" /\ ringLog[n1].view = ringLog[i].view
        /\ ringLog[n2].op = "new" /\ ringLog[n2].view = ringLog[j].view
        /\ n1 < i /\ n2 < i
        /\ Commits(SubSeq(ringLog, 1, i)) = {}
        /\ SameSlot(i, j)
        /\ ringLog[c1].op = "commit" /\ ringLog[c1].view = ringLog[i].view
        /\ ringLog[c2].op = "commit" /\ ringLog[c2].view = ringLog[j].view
        /\ j < c1 /\ c1 < c2
        /\ ringBounds = <<0, 1>>
        /\ ringMap[0] = ringLog[j].item

====
